---- MODULE Spec2Model ----
(***************************************************************************)
(* State-machine model of the two browser-automation flows of the          *)
(* repository: ask_gemini (scripts/ask_gemini.py) and generate_image       *)
(* (scripts/generate_image.py), with their main() wrappers.                *)
(*                                                                         *)
(* Texts are sequences of small integers; 0 stands for a whitespace        *)
(* character, so that str.strip() and len() are computed as the code       *)
(* computes them.  Python's None is the record NoneV; a value v that is    *)
(* not None is Some(v).                                                    *)
(***************************************************************************)
EXTENDS Integers, Sequences, FiniteSets, TLC

\* ------------------------------------------------------------------ bounds
\* Seconds until the text flow's deadline (the code uses 120, one poll per
\* second); one poll tick advances the clock by one.
PollDeadline == 5
\* Number of response locators polled per tick (the code declares 8).
NumResponseSelectors == 4
\* Iterations of generate_image's polling loop (the code uses range(30)).
ImagePollAttempts == 4
\* Largest number of generated-image containers on the page.
MaxContainers == 3

\* -------------------------------------------------------- program constants
NumInputSelectors == 5
NumImageInputSelectors == 3
NumImageButtonSelectors == 4
NumImageResultSelectors == 3
LengthThreshold == 100
MinLength == 10
StableThreshold == 3

\* ------------------------------------------------------------------- values
NoneV == [some |-> FALSE, val |-> <<>>]
Some(v) == [some |-> TRUE, val |-> v]

\* Python truthiness of an optional string / list: not None and not empty.
Truthy(r) == r.some /\ r.val # <<>>

Rep(c, n) == [i \in 1..n |-> c]
Pad(s) == <<0>> \o s \o <<0, 0>>

RECURSIVE LStrip(_)
LStrip(s) == IF s # <<>> /\ Head(s) = 0 THEN LStrip(Tail(s)) ELSE s

RECURSIVE RStrip(_)
RStrip(s) ==
    IF s # <<>> /\ s[Len(s)] = 0 THEN RStrip(SubSeq(s, 1, Len(s) - 1)) ELSE s

\* str.strip()
Strip(s) == RStrip(LStrip(s))

\* The prompts a run can be started with: a short one, one longer than the
\* 100-character threshold of generate_image, and one with surrounding
\* whitespace (the argument is used as typed on the command line).
ShortQ == Rep(1, 12)
LongQ == Rep(1, 101)
PaddedQ == Pad(Rep(5, 12))
Questions == {ShortQ, LongQ, PaddedQ}

TextA == Rep(2, 11)
TextB == Rep(3, 11)
TextTen == Rep(2, 10)
TextFour == <<4>>

\* What latest.inner_text() can return for the newest element of a locator.
RawTexts(q) == {<<>>, <<0, 0>>, q, Pad(q), TextTen, TextFour, TextA, Pad(TextA), TextB}

\* One locator query of the polling loop: no element, an exception, or the
\* raw text of the newest element.
NoMatch == [kind |-> "none", text |-> <<>>]
Raises == [kind |-> "raise", text |-> <<>>]
Shows(t) == [kind |-> "text", text |-> t]
Samples(q) == {NoMatch, Raises} \cup {Shows(t) : t \in RawTexts(q)}

VARIABLES
    flow,            \* "ask" | "image": which script runs
    question,        \* the prompt (ask_gemini: question, generate_image: prompt)
    headless,        \* the headless argument
    authenticated,   \* what AuthManager.is_authenticated() returns
    pc,              \* position in the function
    playwright,      \* TRUE when the local playwright is not None
    context,         \* TRUE when the local context is not None
    cookies,         \* the cookies launch_persistent_context left in the
                     \* context, kept until the first page is opened
    acquisition,     \* what the running launch_persistent_context call met,
                     \* kept until the first page is opened
    dom,             \* input candidates currently visible on the loaded page
    selector,        \* the loop variable selector (index in the list iterated)
    input_element,   \* 0: None, k: handle of the element candidate k matched
    working_selector,\* 0: None, k: candidate k
    tick,            \* seconds elapsed since the deadline was computed
    answer,          \* ask_gemini's local answer
    stable_count,
    last_text,
    result,          \* return value of ask_gemini / generate_image
    exitCode,        \* return value of main (-1: not returned yet)
    paused,          \* an inspection sleep (30 s / 60 s) was taken
    teardown,        \* cleanup calls attempted in the finally block, in order
    waitLog,         \* wait_for_selector calls of the input resolution, in order
    methodLog,       \* delivery methods attempted, in order, with their outcome
    enterCount,      \* completed page.keyboard.press("Enter") calls
    runText,         \* the accepted sample observed last
    runLen,          \* length of the current run of identical accepted samples
    tickHits,        \* locators that returned elements in the current tick (0, 1)
    multi,           \* some tick had two or more locators returning elements
    echoSeen,        \* a sample equal to the question was observed
    changing,        \* every tick so far showed one accepted text, differing
                     \* from the text of the tick before
    tickText,        \* the text shown in the current tick (while changing)
    prevTickText,    \* the text shown in the tick before (while changing)
    steady,          \* every response text so far was one and the same
                     \* non-empty text that is not the question
    steadyText,      \* that text (while steady)
    steadyCount,     \* how often it was sampled (while steady; stops at 4)
    constant,        \* every locator query so far either matched nothing,
                     \* every time, or showed one acceptable text, every time
    shown,           \* the pairs <<locator, text>> of the locators that
                     \* matched and the text each showed (while constant)
    gap,             \* a rejected sample or a raising query came after the
                     \* first sample of the current run of accepted samples
    escaped,         \* an exception reached the function's outer handler
    image_button_found,
    attempt,         \* generate_image: the loop variable attempt
    last_image_count,
    images_found,    \* number of elements in the list images_found
    numContainers,   \* len(generated_images)
    item,            \* 1-based position of the retrieval loop (i + 1)
    saved_paths,     \* paths saved so far: [index, kind]
    itemLog          \* per processed container: what was saved, what raised

\* The persisted state file (STATE_FILE) as _inject_cookies meets it: whether
\* it exists, whether open and json.load succeed on it, whether the loaded
\* object has a 'cookies' entry, and the cookie list under that entry.
StateFile(e, p, k, c) == [exists |-> e, parses |-> p, hasKey |-> k, cookies |-> c]

SavedCookies == <<1, 2>>

StateFiles ==
    { StateFile(FALSE, FALSE, FALSE, <<>>),
      StateFile(TRUE, FALSE, FALSE, <<>>),
      StateFile(TRUE, TRUE, FALSE, <<>>),
      StateFile(TRUE, TRUE, TRUE, <<>>),
      StateFile(TRUE, TRUE, TRUE, SavedCookies) }

\* 'cookies' in state and len(state['cookies']) > 0, for a file that loaded
HoldsCookies(f) == f.exists /\ f.parses /\ f.hasKey /\ Len(f.cookies) > 0

CookieSet(list) == { list[i] : i \in 1..Len(list) }

NoAcquisition ==
    [launched |-> FALSE, file |-> StateFile(FALSE, FALSE, FALSE, <<>>),
     addRaises |-> FALSE]

\* _inject_cookies with no try around its body: a failure to load the file
\* or to add the cookies leaves the function as an exception.
InjectCookiesUnguarded(f, addRaises) ==
    IF ~f.exists THEN [added |-> {}, raised |-> FALSE]
    ELSE IF ~f.parses THEN [added |-> {}, raised |-> TRUE]
    ELSE IF HoldsCookies(f)
         THEN IF addRaises THEN [added |-> {}, raised |-> TRUE]
              ELSE [added |-> CookieSet(f.cookies), raised |-> FALSE]
         ELSE [added |-> {}, raised |-> FALSE]

\* _inject_cookies that adds only the first cookie of the list.
InjectFirstCookieOnly(f, addRaises) ==
    IF f.exists /\ f.parses /\ HoldsCookies(f) /\ ~addRaises
    THEN [added |-> {f.cookies[1]}, raised |-> FALSE]
    ELSE [added |-> {}, raised |-> FALSE]

\* BrowserFactory._inject_cookies(context): the cookies it leaves in the
\* context and whether an exception leaves it.  context.add_cookies adds the
\* whole list or, when it raises, nothing; every exception of the guarded
\* body is caught and printed.
_inject_cookies(f, addRaises) ==
    IF ~f.exists THEN [added |-> {}, raised |-> FALSE]
    ELSE IF ~f.parses THEN [added |-> {}, raised |-> FALSE]
    ELSE IF HoldsCookies(f)
         THEN IF addRaises THEN [added |-> {}, raised |-> FALSE]
              ELSE [added |-> CookieSet(f.cookies), raised |-> FALSE]
         ELSE [added |-> {}, raised |-> FALSE]

vars == <<flow, question, headless, authenticated, pc, playwright, context,
          cookies, acquisition,
          dom, selector, input_element, working_selector, tick, answer,
          stable_count, last_text, result, exitCode, paused, teardown,
          waitLog, methodLog, enterCount, runText, runLen, tickHits, multi, echoSeen,
          changing, tickText, prevTickText, steady, steadyText, steadyCount,
          constant, shown, gap, escaped, image_button_found, attempt,
          last_image_count, images_found, numContainers, item, saved_paths,
          itemLog>>

envVars == <<flow, question, headless, authenticated>>
sessionVars == <<playwright, context, cookies, acquisition>>
inputVars == <<dom, input_element, working_selector, waitLog>>
pollVars == <<tick, answer, stable_count, last_text>>
endVars == <<result, exitCode, paused, teardown>>
imageVars == <<image_button_found, attempt, last_image_count, images_found,
               numContainers, item, saved_paths, itemLog>>
pollObsVars == <<runText, runLen, tickHits, multi, echoSeen, changing, tickText,
                 prevTickText, steady, steadyText, steadyCount, constant,
                 shown, gap>>
obsVars == <<pollObsVars, escaped>>

Init ==
    /\ flow \in {"ask", "image"}
    /\ question \in Questions
    /\ headless \in BOOLEAN
    /\ authenticated \in BOOLEAN
    /\ pc = "auth"
    /\ playwright = FALSE
    /\ context = FALSE
    /\ cookies = {}
    /\ acquisition = NoAcquisition
    /\ dom = {}
    /\ selector = 0
    /\ input_element = 0
    /\ working_selector = 0
    /\ tick = 0
    /\ answer = NoneV
    /\ stable_count = 0
    /\ last_text = NoneV
    /\ result = NoneV
    /\ exitCode = -1
    /\ paused = FALSE
    /\ teardown = <<>>
    /\ waitLog = <<>>
    /\ methodLog = <<>>
    /\ enterCount = 0
    /\ runText = NoneV
    /\ runLen = 0
    /\ tickHits = 0
    /\ multi = FALSE
    /\ echoSeen = FALSE
    /\ changing = TRUE
    /\ tickText = NoneV
    /\ prevTickText = NoneV
    /\ steady = TRUE
    /\ steadyText = NoneV
    /\ steadyCount = 0
    /\ constant = TRUE
    /\ shown = {}
    /\ gap = FALSE
    /\ escaped = FALSE
    /\ image_button_found = FALSE
    /\ attempt = 0
    /\ last_image_count = 0
    /\ images_found = 0
    /\ numContainers = 0
    /\ item = 0
    /\ saved_paths = <<>>
    /\ itemLog = <<>>

\* ------------------------------------------------------- shared exit paths
\* "return None" inside the try block: the value is fixed, then the finally
\* block runs.  pause: the branch sleeps for inspection when not headless.
ReturnNone(pause) ==
    /\ result' = NoneV
    /\ paused' = (paused \/ (pause /\ ~headless))
    /\ pc' = "finally"

\* An exception that reaches the function's outer handler.
RaiseToHandler == pc' = "except"

\* CheckAuth that goes on after a failed check.
CheckAuthIgnored ==
    /\ pc = "auth"
    /\ pc' = "start"
    /\ UNCHANGED <<envVars, sessionVars, inputVars, pollVars, selector,
                   endVars, methodLog, enterCount, obsVars, imageVars>>

\* auth.is_authenticated() check at the top of both functions.
CheckAuth ==
    /\ pc = "auth"
    /\ IF authenticated
       THEN pc' = "start" /\ UNCHANGED result
       ELSE pc' = "returned" /\ result' = NoneV
    /\ UNCHANGED <<envVars, sessionVars, inputVars, pollVars, selector,
                   exitCode, paused, teardown, methodLog, enterCount, obsVars, imageVars>>

\* playwright = sync_playwright().start()
StartDriver ==
    /\ pc = "start"
    /\ \E ok \in BOOLEAN :
         IF ok THEN playwright' = TRUE /\ pc' = "launch"
         ELSE UNCHANGED playwright /\ RaiseToHandler
    /\ UNCHANGED <<envVars, context, cookies, acquisition, inputVars, pollVars, selector, endVars,
                   methodLog, enterCount, obsVars, imageVars>>

\* context = BrowserFactory.launch_persistent_context(playwright, headless):
\* playwright.chromium.launch_persistent_context either raises or returns a
\* browser context, into which _inject_cookies then puts the saved cookies;
\* what it returns is assigned to the local context.
LaunchContext ==
    /\ pc = "launch"
    /\ \/ /\ RaiseToHandler
          /\ UNCHANGED <<context, cookies, acquisition>>
       \/ \E f \in StateFiles, addRaises \in BOOLEAN :
            /\ addRaises => HoldsCookies(f)
            /\ acquisition' = [launched |-> TRUE, file |-> f,
                               addRaises |-> addRaises]
            /\ LET r == _inject_cookies(f, addRaises)
               IN /\ cookies' = r.added
                  /\ IF r.raised THEN RaiseToHandler /\ UNCHANGED context
                     ELSE context' = TRUE /\ pc' = "navigate"
    /\ UNCHANGED <<envVars, playwright, inputVars, pollVars, selector, endVars,
                   methodLog, enterCount, obsVars, imageVars>>

InputCount == IF flow = "ask" THEN NumInputSelectors ELSE NumImageInputSelectors

\* page = context.new_page(); page.goto(...); time.sleep(...)
\* The page that loads shows any subset of the input candidates.  From the
\* first navigation on the site itself sets and clears cookies; the model
\* follows the cookies of the context up to this point only.
Navigate ==
    /\ pc = "navigate"
    /\ \/ /\ dom' \in SUBSET (1..InputCount)
          /\ selector' = 1
          /\ pc' = IF flow = "ask" THEN "find_input" ELSE "find_button"
       \/ /\ RaiseToHandler
          /\ UNCHANGED <<dom, selector>>
    /\ acquisition' = NoAcquisition
    /\ cookies' = {}
    /\ UNCHANGED <<envVars, playwright, context, input_element,
                   working_selector,
                   waitLog, pollVars, endVars, methodLog, enterCount, obsVars, imageVars>>

\* dom is the snapshot of the page the input phase looks at; it is dropped
\* (set to {}) when that phase ends, since no later step queries it.
\* wait_for_selector(selector, state="visible") returns an element handle
\* when the candidate is visible and the wait does not fail; on a timeout or
\* any other error it raises, and the loop goes on as it does for a falsy
\* return value.
WaitFinds(sel, raised) == sel \in dom /\ ~raised

\* ResolveNext in which a failed wait ends the resolution.
ResolveNextAbortOnMiss(sel, found, n) ==
    IF found THEN [elem |-> sel, next |-> "found"]
    ELSE [elem |-> 0, next |-> "exhausted"]

\* Control flow of one iteration of the input-resolution loop at candidate
\* sel of n: the element kept and where the loop goes next.
ResolveNext(sel, found, n) ==
    IF found THEN [elem |-> sel, next |-> "found"]
    ELSE IF sel < n THEN [elem |-> 0, next |-> "continue"]
    ELSE [elem |-> 0, next |-> "exhausted"]

\* for selector in GEMINI_INPUT_SELECTORS / input_selectors: one iteration,
\* followed by the "if not input_element" check when the loop ends.
FindInput ==
    /\ pc = "find_input"
    /\ \E raised \in BOOLEAN :
         LET found == WaitFinds(selector, raised)
             r == ResolveNext(selector, found, InputCount)
         IN /\ waitLog' = Append(waitLog, [sel |-> selector, found |-> found])
            /\ input_element' = r.elem
            /\ dom' = IF r.next = "continue" \/ (r.next = "found" /\ flow = "ask")
                      THEN dom ELSE {}
            /\ CASE r.next = "found" ->
                      /\ selector' = IF flow = "ask" THEN 1 ELSE selector
                      /\ pc' = IF flow = "ask" THEN "find_working" ELSE "image_deliver"
                      /\ UNCHANGED <<result, paused>>
                 [] r.next = "continue" ->
                      /\ selector' = selector + 1
                      /\ UNCHANGED <<pc, result, paused>>
                 [] OTHER ->
                      /\ ReturnNone(flow = "ask")
                      /\ UNCHANGED selector
    /\ UNCHANGED <<envVars, sessionVars, working_selector, pollVars,
                   exitCode, teardown, methodLog, enterCount, obsVars, imageVars>>

\* for selector in GEMINI_INPUT_SELECTORS: test_elem = page.query_selector(..)
\* "if test_elem and test_elem.is_visible()"; any exception skips the candidate.
FindWorking ==
    /\ pc = "find_working"
    /\ \E raised \in BOOLEAN :
         IF selector \in dom /\ ~raised
         THEN /\ working_selector' = selector
              /\ pc' = "deliver"
              /\ dom' = {}
              /\ UNCHANGED <<selector, result, paused>>
         ELSE IF selector < NumInputSelectors
         THEN /\ selector' = selector + 1
              /\ UNCHANGED <<pc, dom, working_selector, result, paused>>
         ELSE /\ ReturnNone(FALSE)
              /\ dom' = {}
              /\ UNCHANGED <<selector, working_selector>>
    /\ UNCHANGED <<envVars, sessionVars, input_element, waitLog, pollVars,
                   exitCode, teardown, methodLog, enterCount, obsVars, imageVars>>

\* The delivery methods of ask_gemini in the order of the nested try blocks:
\* click + type, fill, page.evaluate of a scripted assignment.
AskMethods == <<"type", "fill", "script">>

\* DeliverNext that goes on to the submission when the last method raised.
DeliverNextSubmitAnyway(m, raised) ==
    IF ~raised THEN "submit"
    ELSE IF m < Len(AskMethods) THEN "deliver"
    ELSE "submit"

\* DeliverNext that falls through to the next method after a success.
DeliverNextFallThrough(m, raised) ==
    IF m < Len(AskMethods) THEN "deliver"
    ELSE IF raised THEN "fail" ELSE "submit"

\* Where the nested try/except chain goes after method number m.
DeliverNext(m, raised) ==
    IF ~raised THEN "submit"
    ELSE IF m < Len(AskMethods) THEN "deliver"
    ELSE "fail"

\* One delivery method of ask_gemini.
Deliver ==
    /\ pc = "deliver"
    /\ flow = "ask"
    /\ \E raised \in BOOLEAN :
         LET m == Len(methodLog) + 1
             nxt == DeliverNext(m, raised)
         IN /\ methodLog' = Append(methodLog, [method |-> AskMethods[m], raised |-> raised])
            /\ IF nxt = "fail"
               THEN ReturnNone(FALSE)
               ELSE pc' = nxt /\ UNCHANGED <<result, paused>>
    /\ UNCHANGED <<envVars, sessionVars, inputVars, selector, pollVars,
                   exitCode, teardown, enterCount, obsVars, imageVars>>

\* page.keyboard.press("Enter"), then the polling state is initialised.
\* input_element and working_selector are never read after this statement
\* (they are dead locals); the model forgets them, and the log of the waits
\* that produced them, here, so that the completion phase is explored once
\* per delivery history instead of once per resolved candidate.
Submit ==
    /\ pc = "submit"
    /\ \/ /\ enterCount' = enterCount + 1
          /\ input_element' = 0
          /\ working_selector' = 0
          /\ waitLog' = <<>>
          /\ selector' = 1
          /\ tick' = 0
          /\ answer' = NoneV
          /\ stable_count' = 0
          /\ last_text' = NoneV
          /\ pc' = IF flow = "ask" THEN "poll" ELSE "await_image"
       \/ /\ RaiseToHandler
          /\ UNCHANGED <<enterCount, selector, pollVars, input_element,
                         working_selector, waitLog>>
    /\ UNCHANGED <<envVars, sessionVars, dom, endVars, methodLog, obsVars, imageVars>>

\* Accepted without the comparison with the question.
AcceptedNoEchoCheck(text, q) == text # <<>> /\ Len(text) > MinLength

\* "if text and text != question and len(text) > 10"
Accepted(text, q) == text # <<>> /\ text # q /\ Len(text) > MinLength

\* The stability window of the polling loop.
Window == [count |-> stable_count, last |-> last_text, answer |-> answer]

\* PollUpdate that keeps the counter when the text changes.
PollUpdateNoReset(w, text) ==
    IF w.last = Some(text)
    THEN [count |-> w.count + 1,
          last |-> w.last,
          answer |-> IF w.count + 1 >= StableThreshold THEN Some(text) ELSE w.answer]
    ELSE [count |-> w.count, last |-> Some(text), answer |-> w.answer]

\* PollUpdate with the counter started at 1 on a new text.
PollUpdateCountsFirst(w, text) ==
    IF w.last = Some(text)
    THEN [count |-> w.count + 1,
          last |-> w.last,
          answer |-> IF w.count + 1 >= StableThreshold THEN Some(text) ELSE w.answer]
    ELSE [count |-> 1, last |-> Some(text), answer |-> w.answer]

\* Body of the "if text and ..." block for an accepted sample.
PollUpdate(w, text) ==
    IF w.last = Some(text)
    THEN [count |-> w.count + 1,
          last |-> w.last,
          answer |-> IF w.count + 1 >= StableThreshold THEN Some(text) ELSE w.answer]
    ELSE [count |-> 0, last |-> Some(text), answer |-> w.answer]

\* PollSample in which a rejected text starts the window afresh.
PollSampleResetOnReject(w, s, q) ==
    IF s.kind = "text" /\ Accepted(Strip(s.text), q)
    THEN PollUpdate(w, Strip(s.text))
    ELSE IF s.kind = "text"
    THEN [count |-> 0, last |-> NoneV, answer |-> w.answer]
    ELSE w

\* One locator query of one tick: query_selector_all, elements[-1],
\* inner_text().strip(), filter, window update.  A query that raises or
\* returns no element leaves the window alone.
PollSample(w, s, q) ==
    IF s.kind = "text" /\ Accepted(Strip(s.text), q)
    THEN PollUpdate(w, Strip(s.text))
    ELSE w

\* Bookkeeping of what the page showed, independent of the window.
Observe(s, acc, endOfTick) ==
    LET t == Strip(s.text)
        hits == IF s.kind = "text" THEN tickHits + 1 ELSE tickHits
        m == multi \/ hits >= 2
        tt == IF acc /\ ~tickText.some THEN Some(t) ELSE tickText
        ch == /\ changing
              /\ s.kind \in {"none", "text"}
              /\ s.kind = "text" => acc
              /\ acc => IF tickText.some THEN tickText = Some(t)
                        ELSE prevTickText # Some(t)
              /\ endOfTick => tt.some
        st == /\ steady
              /\ s.kind # "raise"
              /\ s.kind = "text" =>
                    /\ t # <<>> /\ t # question
                    /\ steadyText.some => steadyText = Some(t)
        co == /\ constant
              /\ s.kind # "raise"
              /\ s.kind = "text" => acc
              /\ tick > 0 => IF s.kind = "text" THEN <<selector, t>> \in shown
                             ELSE \A p \in shown : p[1] # selector
        rej == s.kind = "raise" \/ (s.kind = "text" /\ ~acc)
    IN /\ gap' = IF acc THEN gap /\ runText = Some(t)
                 ELSE gap \/ (rej /\ runLen >= 1)
       /\ constant' = co
       /\ shown' = IF ~co THEN {}
                   ELSE IF s.kind = "text" THEN shown \cup {<<selector, t>>}
                   ELSE shown
       /\ steady' = st
       /\ steadyText' = IF ~st THEN NoneV
                        ELSE IF s.kind = "text" THEN Some(t) ELSE steadyText
       /\ steadyCount' = IF ~st THEN 0
                         ELSE IF s.kind = "text" /\ steadyCount < 4
                         THEN steadyCount + 1 ELSE steadyCount
       /\ runText' = IF acc THEN Some(t) ELSE runText
       /\ runLen' = IF ~acc THEN runLen
                    ELSE IF runText = Some(t) THEN runLen + 1 ELSE 1
       /\ multi' = m
       /\ tickHits' = IF m \/ endOfTick THEN 0 ELSE hits
       /\ echoSeen' = (echoSeen \/ (s.kind = "text" /\ t = question))
       /\ changing' = ch
       /\ tickText' = IF ch /\ ~endOfTick THEN tt ELSE NoneV
       /\ prevTickText' = IF ~ch THEN NoneV
                          ELSE IF endOfTick THEN tt ELSE prevTickText

\* A clock test that never fails.
NoDeadline(t) == TRUE

\* The clock test of "while time.time() < deadline".
BeforeDeadline(t) == t < PollDeadline

\* One iteration of "for selector in GEMINI_RESPONSE_SELECTORS" inside the
\* while loop; the last iteration of a tick also runs "if answer: break",
\* time.sleep(1) and the loop test.  found_selectors only decides whether a
\* log line is printed and is left out.
PollQuery ==
    /\ pc = "poll"
    /\ \E s \in Samples(question) :
         LET w == PollSample(Window, s, question)
             acc == s.kind = "text" /\ Accepted(Strip(s.text), question)
             done == Truthy(w.answer)
             last == selector = NumResponseSelectors
         IN /\ stable_count' = w.count
            /\ last_text' = w.last
            /\ answer' = w.answer
            /\ Observe(s, acc, last /\ ~done)
            /\ IF done
               THEN pc' = "after_poll" /\ UNCHANGED <<selector, tick>>
               ELSE IF ~last
               THEN selector' = selector + 1 /\ UNCHANGED <<pc, tick>>
               ELSE /\ selector' = 1
                    /\ tick' = tick + 1
                    /\ pc' = IF BeforeDeadline(tick + 1) THEN "poll" ELSE "after_poll"
    /\ UNCHANGED <<envVars, sessionVars, inputVars, endVars, methodLog,
                   enterCount, escaped, imageVars>>

\* AfterPoll that submits the prompt again after a timeout.
AfterPollResubmit ==
    /\ pc = "after_poll"
    /\ IF Truthy(answer)
       THEN result' = answer /\ pc' = "finally" /\ UNCHANGED paused
       ELSE IF enterCount < 2
       THEN pc' = "submit" /\ UNCHANGED <<result, paused>>
       ELSE ReturnNone(TRUE)
    /\ UNCHANGED <<envVars, sessionVars, inputVars, pollVars, selector,
                   exitCode, teardown, methodLog, enterCount, obsVars, imageVars>>

\* "if not answer: ... return None" / "return answer"
AfterPoll ==
    /\ pc = "after_poll"
    /\ IF Truthy(answer)
       THEN result' = answer /\ pc' = "finally" /\ UNCHANGED paused
       ELSE ReturnNone(TRUE)
    /\ UNCHANGED <<envVars, sessionVars, inputVars, pollVars, selector,
                   exitCode, teardown, methodLog, enterCount, obsVars, imageVars>>

\* ------------------------------------------------------------ generate_image
\* for selector in IMAGE_BUTTON_SELECTORS: wait for the button and click it;
\* a wait or click that raises moves on to the next candidate.  The input
\* resolution follows whether or not a button was found.
FindButton ==
    /\ pc = "find_button"
    /\ \E clicked \in BOOLEAN :
         IF clicked
         THEN /\ image_button_found' = TRUE
              /\ selector' = 1
              /\ pc' = "find_input"
         ELSE /\ UNCHANGED image_button_found
              /\ IF selector < NumImageButtonSelectors
                 THEN selector' = selector + 1 /\ UNCHANGED pc
                 ELSE selector' = 1 /\ pc' = "find_input"
    /\ UNCHANGED <<envVars, sessionVars, inputVars, pollVars, endVars,
                   methodLog, enterCount, obsVars, attempt, last_image_count,
                   images_found, numContainers, item, saved_paths, itemLog>>

\* The delivery method generate_image picks once the click succeeded:
\* fill on the inner input for a long prompt when such an input is found,
\* per-character typing otherwise.
ImageMethod(prompt, actualFound) ==
    IF Len(prompt) > LengthThreshold /\ actualFound THEN "fill" ELSE "type"

\* The single try block that delivers the prompt in generate_image; any
\* exception in it returns None.
ImageDeliver ==
    /\ pc = "image_deliver"
    /\ \E clickRaised \in BOOLEAN, actualFound \in BOOLEAN, raised \in BOOLEAN :
         LET entry == IF clickRaised
                      THEN [method |-> "click", raised |-> TRUE]
                      ELSE [method |-> ImageMethod(question, actualFound),
                            raised |-> raised]
         IN /\ methodLog' = Append(methodLog, entry)
            /\ IF entry.raised
               THEN ReturnNone(FALSE)
               ELSE pc' = "submit" /\ UNCHANGED <<result, paused>>
    /\ UNCHANGED <<envVars, sessionVars, inputVars, selector, pollVars,
                   exitCode, teardown, enterCount, obsVars, imageVars>>

\* page.wait_for_selector("generated-image", timeout=300000)
AwaitImage ==
    /\ pc = "await_image"
    /\ \/ /\ pc' = "image_poll"
          /\ stable_count' = 0
          /\ last_image_count' = 0
          /\ attempt' = 0
          /\ selector' = 1
          /\ UNCHANGED <<result, paused>>
       \/ /\ ReturnNone(TRUE)
          /\ UNCHANGED <<stable_count, last_image_count, attempt, selector>>
    /\ UNCHANGED <<envVars, sessionVars, inputVars, tick, answer, last_text,
                   exitCode, teardown, methodLog, enterCount, obsVars,
                   image_button_found, images_found, numContainers, item,
                   saved_paths, itemLog>>

\* The numbers of loaded images (src on googleusercontent.com) one query of
\* an image-result locator can report; 0 also stands for "no element".
ImageCounts == {0, 1, 2}

\* The image stability window.
ImageWindow == [count |-> stable_count, last |-> last_image_count,
                found |-> images_found]

\* "if loaded_images:" block for a query that reports n loaded images.
ImageUpdate(w, n) ==
    IF n = 0 THEN w
    ELSE IF n = w.last /\ n > 0
    THEN [count |-> w.count + 1,
          last |-> w.last,
          found |-> IF w.count + 1 >= StableThreshold THEN n ELSE w.found]
    ELSE [count |-> 0, last |-> n, found |-> w.found]

\* One iteration of "for selector in IMAGE_RESULT_SELECTORS" inside
\* "for attempt in range(30)".  n is the number of elements of the query
\* whose src is on googleusercontent.com; a query that raises changes nothing.
ImagePoll ==
    /\ pc = "image_poll"
    /\ \E raised \in BOOLEAN, n \in ImageCounts :
         LET w == IF raised THEN ImageWindow ELSE ImageUpdate(ImageWindow, n)
             done == w.found > 0
             last == selector = NumImageResultSelectors
         IN /\ stable_count' = w.count
            /\ last_image_count' = w.last
            /\ images_found' = w.found
            /\ IF done
               THEN pc' = "after_image_poll" /\ UNCHANGED <<selector, attempt>>
               ELSE IF ~last
               THEN selector' = selector + 1 /\ UNCHANGED <<pc, attempt>>
               ELSE /\ selector' = 1
                    /\ attempt' = attempt + 1
                    /\ pc' = IF attempt + 1 < ImagePollAttempts
                             THEN "image_poll" ELSE "after_image_poll"
    /\ UNCHANGED <<envVars, sessionVars, inputVars, tick, answer, last_text,
                   endVars, methodLog, enterCount, obsVars, image_button_found,
                   numContainers, item, saved_paths, itemLog>>

\* "if not images_found: return None"; otherwise the output directory is
\* created and the generated-image containers are listed.  The polling
\* locals (selector, attempt, stable_count, last_image_count) are never read
\* after the loop; the model forgets them when the retrieval starts.
AfterImagePoll ==
    /\ pc = "after_image_poll"
    /\ IF images_found = 0
       THEN /\ ReturnNone(TRUE)
            /\ UNCHANGED <<numContainers, item, saved_paths>>
       ELSE \/ /\ numContainers' \in 0..MaxContainers
               /\ item' = 1
               /\ saved_paths' = <<>>
               /\ pc' = "retrieve"
               /\ UNCHANGED <<result, paused>>
            \/ /\ RaiseToHandler
               /\ UNCHANGED <<numContainers, item, saved_paths, result, paused>>
    /\ IF images_found = 0
       THEN UNCHANGED <<selector, attempt, stable_count, last_image_count>>
       ELSE /\ selector' = 0
            /\ attempt' = 0
            /\ stable_count' = 0
            /\ last_image_count' = 0
    /\ UNCHANGED <<envVars, sessionVars, inputVars, tick, answer, last_text,
                   exitCode, teardown, methodLog, enterCount, obsVars,
                   image_button_found, images_found, itemLog>>

\* What one container can do: the download-button query, the download
\* (click, transfer, save_as), and the two img.image captures (the one of
\* the no-button branch and the one of the except branch).
ButtonOutcomes == {"raise", "none", "found"}
CaptureOutcomes == {"query_raise", "none", "shot_raise", "shot_ok"}
ItemBehaviours ==
    [button : ButtonOutcomes, downloadRaised : BOOLEAN,
     capture : CaptureOutcomes, fallback : CaptureOutcomes]

\* The except branch of the loop body: a capture, kept when it succeeds.
Fallback(b) == IF b.fallback = "shot_ok" THEN "capture" ELSE "none"

\* Body of the retrieval loop for one container: what is appended to
\* saved_paths ("download", "capture" or "none") and whether the body's
\* try block raised.
RetrieveOne(b) ==
    CASE b.button = "raise" -> [saved |-> Fallback(b), raised |-> TRUE]
      [] b.button = "none" ->
            IF b.capture = "none" THEN [saved |-> "none", raised |-> FALSE]
            ELSE IF b.capture = "shot_ok" THEN [saved |-> "capture", raised |-> FALSE]
            ELSE [saved |-> Fallback(b), raised |-> TRUE]
      [] OTHER ->
            IF b.downloadRaised THEN [saved |-> Fallback(b), raised |-> TRUE]
            ELSE [saved |-> "download", raised |-> FALSE]

\* Keep in which a download that raised had already appended its path.
KeepDownloadThenCapture(paths, i, r) ==
    IF r.saved = "none" THEN paths
    ELSE IF r.raised
    THEN Append(Append(paths, [index |-> i, kind |-> "download"]),
                [index |-> i, kind |-> r.saved])
    ELSE Append(paths, [index |-> i, kind |-> r.saved])

\* saved_paths after the body ran for container i with outcome r.
Keep(paths, i, r) ==
    IF r.saved = "none" THEN paths
    ELSE Append(paths, [index |-> i, kind |-> r.saved])

\* RetrieveResult that returns the list also when it is empty.
RetrieveResultAlways(paths) == Some(paths)

\* "if saved_paths: return saved_paths else: return None"
RetrieveResult(paths) == IF paths # <<>> THEN Some(paths) ELSE NoneV

\* RetrieveItem in which a container that raises ends the loop.
RetrieveItemAbort ==
    /\ pc = "retrieve"
    /\ item <= numContainers
    /\ \E b \in ItemBehaviours :
         LET r == RetrieveOne(b)
         IN /\ saved_paths' = Keep(saved_paths, item, r)
            /\ itemLog' = Append(itemLog, r)
            /\ item' = IF r.raised THEN numContainers + 1 ELSE item + 1
    /\ UNCHANGED <<envVars, sessionVars, inputVars, selector, pollVars, pc,
                   endVars, methodLog, enterCount, obsVars, image_button_found,
                   attempt, last_image_count, images_found, numContainers>>

\* for i, gen_img in enumerate(generated_images): one iteration.
RetrieveItem ==
    /\ pc = "retrieve"
    /\ item <= numContainers
    /\ \E b \in ItemBehaviours :
         LET r == RetrieveOne(b)
         IN /\ saved_paths' = Keep(saved_paths, item, r)
            /\ itemLog' = Append(itemLog, r)
    /\ item' = item + 1
    /\ UNCHANGED <<envVars, sessionVars, inputVars, selector, pollVars, pc,
                   endVars, methodLog, enterCount, obsVars, image_button_found,
                   attempt, last_image_count, images_found, numContainers>>

\* The return statement after the retrieval loop.
AfterRetrieve ==
    /\ pc = "retrieve"
    /\ item > numContainers
    /\ result' = RetrieveResult(saved_paths)
    /\ pc' = "finally"
    /\ UNCHANGED <<envVars, sessionVars, inputVars, selector, pollVars,
                   exitCode, paused, teardown, methodLog, enterCount, obsVars,
                   imageVars>>

\* The outer "except Exception" handler of both functions.
HandleException ==
    /\ pc = "except"
    /\ escaped' = TRUE
    /\ ReturnNone(TRUE)
    /\ UNCHANGED <<envVars, sessionVars, inputVars, pollVars, selector,
                   exitCode, teardown, methodLog, enterCount, pollObsVars,
                   imageVars>>

\* CloseContext with no try around context.close().
CloseContextUnguarded ==
    /\ pc = "finally"
    /\ IF context
       THEN \E raised \in BOOLEAN :
              /\ teardown' = Append(teardown, [op |-> "close", raised |-> raised])
              /\ pc' = IF raised THEN "propagated" ELSE "finally_stop"
       ELSE UNCHANGED teardown /\ pc' = "finally_stop"
    /\ UNCHANGED <<envVars, sessionVars, inputVars, pollVars, selector,
                   result, exitCode, paused, methodLog, enterCount, obsVars, imageVars>>

\* finally: if context: try context.close() except: pass
CloseContext ==
    /\ pc = "finally"
    /\ IF context
       THEN \E raised \in BOOLEAN :
              teardown' = Append(teardown, [op |-> "close", raised |-> raised])
       ELSE UNCHANGED teardown
    /\ pc' = "finally_stop"
    /\ UNCHANGED <<envVars, sessionVars, inputVars, pollVars, selector,
                   result, exitCode, paused, methodLog, enterCount, obsVars, imageVars>>

\* StopDriver that is skipped when context.close() raised.
StopDriverUnlessCloseRaised ==
    /\ pc = "finally_stop"
    /\ IF playwright /\ ~(teardown # <<>> /\ teardown[Len(teardown)].raised)
       THEN teardown' = Append(teardown, [op |-> "stop", raised |-> FALSE])
       ELSE UNCHANGED teardown
    /\ pc' = "returned"
    /\ UNCHANGED <<envVars, sessionVars, inputVars, pollVars, selector,
                   result, exitCode, paused, methodLog, enterCount, obsVars,
                   imageVars>>

\* finally: if playwright: try playwright.stop() except: pass
StopDriver ==
    /\ pc = "finally_stop"
    /\ IF playwright
       THEN teardown' = Append(teardown, [op |-> "stop", raised |-> FALSE])
       ELSE UNCHANGED teardown
    /\ pc' = "returned"
    /\ UNCHANGED <<envVars, sessionVars, inputVars, pollVars, selector,
                   result, exitCode, paused, methodLog, enterCount, obsVars, imageVars>>

\* main(): exit code 0 when the returned value is truthy, 1 otherwise.
Main ==
    /\ pc = "returned"
    /\ exitCode' = IF Truthy(result) THEN 0 ELSE 1
    /\ pc' = "exited"
    /\ UNCHANGED <<envVars, sessionVars, inputVars, pollVars, selector,
                   result, paused, teardown, methodLog, enterCount, obsVars, imageVars>>

Next ==
    \/ CheckAuth
    \/ StartDriver
    \/ LaunchContext
    \/ Navigate
    \/ FindInput
    \/ FindWorking
    \/ Deliver
    \/ Submit
    \/ PollQuery
    \/ AfterPoll
    \/ FindButton
    \/ ImageDeliver
    \/ AwaitImage
    \/ ImagePoll
    \/ AfterImagePoll
    \/ RetrieveItem
    \/ AfterRetrieve
    \/ HandleException
    \/ CloseContext
    \/ StopDriver
    \/ Main

Spec == Init /\ [][Next]_vars

\* ------------------------------------------------------------------ claims
Returning == pc \in {"finally", "finally_stop", "returned", "exited"}

C2_NoFalseStability ==
    (flow = "ask" /\ changing /\ prevTickText.some) =>
        (~answer.some /\ ~result.some)

\* C3: the value returned by ask_gemini is never the submitted question.
C3_NoEcho ==
    flow = "ask" => (result # Some(question) /\ answer # Some(question))

C3_Witness ==
    flow = "ask" /\ echoSeen /\ pc = "exited" /\ result.some

Ops(log) == [i \in 1..Len(log) |-> log[i].op]

\* C4: once the driver was started, every return of ask_gemini and
\* generate_image has attempted context.close() (when a context exists) and
\* then playwright.stop(), in this order, whether or not the close raised.
C4_TeardownOnEveryExit ==
    /\ pc \in {"returned", "exited"} =>
          Ops(teardown) = (IF context THEN <<"close">> ELSE <<>>)
                          \o (IF playwright THEN <<"stop">> ELSE <<>>)
    /\ pc = "finally_stop" =>
          Ops(teardown) = (IF context THEN <<"close">> ELSE <<>>)
    /\ context => playwright

C4_Witness ==
    /\ pc = "returned" /\ playwright /\ context
    /\ Len(teardown) = 2 /\ teardown[1].raised /\ teardown[2].op = "stop"

\* C5: when the authentication check fails, the function returns None at
\* once: no driver, no session, no locator wait, no delivery, no Enter, no
\* teardown, and main returns 1.
C5_NotAuthenticatedStopsAtOnce ==
    ~authenticated =>
        /\ pc \in {"auth", "returned", "exited"}
        /\ result = NoneV
        /\ ~playwright /\ ~context
        /\ waitLog = <<>> /\ methodLog = <<>> /\ enterCount = 0
        /\ teardown = <<>>
        /\ pc = "exited" => exitCode = 1

C5_Witness == ~authenticated /\ pc = "exited" /\ exitCode = 1

\* C6: the input resolution waits on the candidates in declared order,
\* keeps the element of the first wait that finds one, goes on after a wait
\* that fails, and waits on no candidate after the first success.
C6_FirstMatchInOrder ==
    LET n == Len(waitLog) IN
    /\ \A i \in 1..n : waitLog[i].sel = i /\ (i < n => ~waitLog[i].found)
    /\ input_element # 0 => (n = input_element /\ waitLog[n].found)
    /\ (n > 0 /\ waitLog[n].found) => input_element = n
    /\ pc = "find_input" => n = selector - 1
    /\ (n > 0 /\ pc # "find_input" /\ input_element = 0) =>
          (n = InputCount /\ result = NoneV /\ enterCount = 0)

C6_Witness ==
    /\ pc = "find_working" /\ input_element = 2
    /\ dom = {1, 2, 3} /\ Len(waitLog) = 2

\* C7: in ask_gemini the delivery methods are attempted in the order type,
\* fill, script, each one only after every earlier one raised.
C7_FallbackOrdering ==
    flow = "ask" =>
        /\ Len(methodLog) <= Len(AskMethods)
        /\ \A i \in 1..Len(methodLog) :
              /\ methodLog[i].method = AskMethods[i]
              /\ i < Len(methodLog) => methodLog[i].raised

C7_Witness ==
    /\ flow = "ask" /\ pc = "submit"
    /\ Len(methodLog) = 2 /\ ~methodLog[2].raised

SavedAt(k) == [index |-> k, kind |-> itemLog[k].saved]
InSeq(x, seq) == \E j \in 1..Len(seq) : seq[j] = x

\* C8: in the retrieval loop every container is processed whatever raised
\* at other containers, and the artifact a container saved stays in
\* saved_paths and is in the returned list.
C8_PartialFailureIsolation ==
    flow = "image" =>
        /\ \A k \in 1..Len(itemLog) :
              itemLog[k].saved # "none" => InSeq(SavedAt(k), saved_paths)
        /\ pc = "retrieve" => Len(itemLog) = item - 1
        /\ (pc # "retrieve" /\ item > 0) =>
              /\ Len(itemLog) = numContainers
              /\ \A k \in 1..Len(itemLog) :
                    itemLog[k].saved # "none" => InSeq(SavedAt(k), result.val)

C8_Witness ==
    /\ flow = "image" /\ pc = "exited" /\ numContainers = 3
    /\ itemLog[1].saved = "download"
    /\ itemLog[2].raised /\ itemLog[2].saved = "none"
    /\ itemLog[3].saved = "download"
    /\ result = Some(<<[index |-> 1, kind |-> "download"],
                       [index |-> 3, kind |-> "download"]>>)

SomeSaved == \E k \in 1..Len(itemLog) : itemLog[k].saved # "none"

\* C9: once the image set was found complete, generate_image returns the
\* saved paths when at least one artifact was saved and None when none was;
\* main returns 0 exactly for a non-empty list.
C9_SuccessIffArtifact ==
    (flow = "image" /\ images_found > 0 /\ Returning) =>
        /\ SomeSaved => (result = Some(saved_paths) /\ saved_paths # <<>>)
        /\ ~SomeSaved => result = NoneV
        /\ pc = "exited" => (exitCode = 0 <=> SomeSaved)

C9_Witness ==
    /\ flow = "image" /\ images_found > 0 /\ pc = "exited"
    /\ Len(itemLog) = 2 /\ ~SomeSaved /\ exitCode = 1

Completed == {i \in 1..Len(methodLog) : ~methodLog[i].raised}
TimedOut ==
    /\ Returning /\ enterCount >= 1
    /\ \/ flow = "ask" /\ ~answer.some
       \/ flow = "image" /\ images_found = 0

\* C10: Enter is pressed at most once per run and at most one delivery
\* completes; after a completion timeout the function returns None.
C10_SubmittedAtMostOnce ==
    /\ enterCount <= 1
    /\ Cardinality(Completed) <= 1
    /\ TimedOut => result = NoneV

C10_Witness ==
    /\ flow = "ask" /\ pc = "exited" /\ TimedOut
    /\ tick = PollDeadline /\ enterCount = 1 /\ exitCode = 1

\* C11: when every response text sampled is the same non-empty text that is
\* not the prompt, one locator matches per tick and the text was sampled at
\* least four times, ask_gemini returns that text and main exits with 0,
\* short texts included.
C11_ShortStableAnswerReturned ==
    (flow = "ask" /\ pc = "exited" /\ steady /\ ~multi /\ steadyCount >= 4) =>
        (result = steadyText /\ exitCode = 0)

\* Set while launch_persistent_context has launched the browser and no page
\* has been opened yet.
JustAcquired == acquisition.launched

\* C12 (as stated): when the state file exists and holds a non-empty cookie
\* list, every cookie of the list is in the context when
\* launch_persistent_context returns, before any page is opened.
C12_CookiesInjected ==
    (pc = "navigate" /\ JustAcquired /\ HoldsCookies(acquisition.file)) =>
        CookieSet(acquisition.file.cookies) \subseteq cookies

\* C12 (amended): the same, provided context.add_cookies does not raise.
C12_CookiesInjectedUnlessAddRaises ==
    (/\ pc = "navigate" /\ JustAcquired
     /\ HoldsCookies(acquisition.file) /\ ~acquisition.addRaises) =>
        CookieSet(acquisition.file.cookies) \subseteq cookies

C12_Witness ==
    /\ pc = "navigate" /\ JustAcquired
    /\ HoldsCookies(acquisition.file) /\ ~acquisition.addRaises
    /\ cookies = CookieSet(SavedCookies)

\* C13: once the browser has launched, whether the state file is absent,
\* unparsable, without a cookies entry, with an empty cookie list, or
\* add_cookies raises, launch_persistent_context returns the context with no
\* cookie injected and no exception leaves it.
C13_AcquisitionResilient ==
    (/\ JustAcquired
     /\ ~HoldsCookies(acquisition.file) \/ acquisition.addRaises) =>
        (pc = "navigate" /\ context /\ cookies = {})

C13_Witness ==
    /\ JustAcquired /\ acquisition.addRaises
    /\ pc = "navigate" /\ context /\ cookies = {}

\* Some entry of the log records an operation that raised.
Raised(log) == \E i \in 1..Len(log) : log[i].raised

\* An exception was raised by a browser operation between the start of the
\* driver and the teardown: by a delivery method, by a download or capture,
\* or by an operation that has no handler of its own.
SomeRaised == Raised(methodLog) \/ Raised(itemLog) \/ escaped

\* C14 (as stated): after any exception raised by a browser operation the
\* function returns None, and no exception leaves the function.
C14_AnyExceptionGivesNone ==
    /\ pc # "propagated"
    /\ (pc = "returned" /\ SomeRaised) => result = NoneV

\* C14 (amended): an exception that reaches the outer handler makes the
\* function return None, and no exception leaves the function, teardown
\* included; an exception caught by a handler of its own step does not decide
\* the result.
C14_EscapedExceptionGivesNone ==
    /\ pc # "propagated"
    /\ (escaped /\ Returning) => result = NoneV

C14_Witness ==
    /\ pc = "returned" /\ escaped /\ context
    /\ Raised(teardown) /\ result = NoneV

\* C15: in non-headless mode, every return of None after the context was
\* launched has paused for inspection before the context is closed.
C15_PauseBeforeTeardown ==
    (~headless /\ context /\ pc = "finally" /\ result = NoneV) => paused

\* Locator queries the polling loop of ask_gemini can still make before its
\* deadline, and those the polling loop of generate_image can still make
\* before its attempts run out.
PollRank ==
    (PollDeadline - tick) * NumResponseSelectors + (NumResponseSelectors - selector)
ImageRank ==
    (ImagePollAttempts - attempt) * NumImageResultSelectors
        + (NumImageResultSelectors - selector)

\* Every step of a polling loop leaves the loop or uses up one of the queries
\* that remain.
C16_Step ==
    /\ pc = "poll" =>
         \/ pc' = "after_poll"
         \/ pc' = "poll" /\ PollRank' < PollRank /\ PollRank' >= 0
    /\ pc = "image_poll" =>
         \/ pc' = "after_image_poll"
         \/ pc' = "image_poll" /\ ImageRank' < ImageRank /\ ImageRank' >= 0

\* The loops run only before the deadline (the last attempt) and with no
\* result yet; they end with a result or with the deadline passed (the
\* attempts used up), and a run that ends without a result returns None.
C16_Outcome ==
    /\ pc = "poll" => tick < PollDeadline /\ ~answer.some
    /\ pc = "after_poll" => answer.some \/ tick >= PollDeadline
    /\ (flow = "ask" /\ Returning /\ enterCount >= 1) =>
         result = (IF answer.some THEN answer ELSE NoneV)
    /\ pc = "image_poll" => attempt < ImagePollAttempts /\ images_found = 0
    /\ pc = "after_image_poll" =>
         images_found > 0 \/ attempt >= ImagePollAttempts
    /\ (flow = "image" /\ Returning /\ enterCount >= 1 /\ images_found = 0) =>
         result = NoneV

\* C16: both completion-detection loops end with a defined outcome, an
\* answer (image set) or None once the deadline has passed (the attempts
\* are used up), and neither loop can run forever.
C16_LoopsTerminate == []C16_Outcome /\ [][C16_Step]_vars

C16_Witness ==
    \/ pc = "finally" /\ flow = "ask" /\ tick >= PollDeadline /\ result = NoneV
    \/ pc = "finally" /\ flow = "image" /\ enterCount >= 1 /\ ~escaped
       /\ attempt >= ImagePollAttempts /\ result = NoneV

\* The run returned None at the delivery step: the last delivery method
\* attempted raised and Enter was never pressed.
FailedAtDelivery ==
    /\ Returning /\ enterCount = 0
    /\ methodLog # <<>> /\ methodLog[Len(methodLog)].raised

\* C17: in both flows the task fails at the delivery step only when typing,
\* fill and scripted assignment were attempted in turn and all three raised.
C17_FallbackInBothFlows ==
    FailedAtDelivery =>
        /\ Len(methodLog) = Len(AskMethods)
        /\ \A i \in 1..Len(methodLog) :
              methodLog[i].method = AskMethods[i] /\ methodLog[i].raised

\* C18: in both flows a prompt longer than the length threshold is never
\* typed per character and, when delivered, was delivered by fill; a prompt
\* at or below the threshold has typing as the first method attempted.
C18_LongPromptFilled ==
    /\ Len(question) > LengthThreshold =>
         /\ \A i \in 1..Len(methodLog) : methodLog[i].method # "type"
         /\ pc = "submit" => methodLog[Len(methodLog)].method = "fill"
    /\ (Len(question) <= LengthThreshold /\ methodLog # <<>>) =>
         methodLog[1].method \in {"click", "type"}

\* C19: within one tick of the polling loop, once a response locator has
\* matched an element and its sample was taken into the window, the queries
\* of the later locators of that tick leave stable_count and last_text
\* unchanged.
C19_FirstLocatorAuthoritative ==
    [][(pc = "poll" /\ tickText.some) =>
          (stable_count' = stable_count /\ last_text' = last_text)]_vars

\* C20: in the polling loop of ask_gemini, last_text is the latest accepted
\* sample, stable_count is the number of accepted samples equal to it that
\* followed it without a different accepted sample in between (so a
\* different accepted sample resets the counter to 0 and an equal one adds
\* 1), and an answer is set only with stable_count at least 3 and is
\* last_text.
C20_WindowInvariant ==
    (flow = "ask" /\ pc \in {"poll", "after_poll"}) =>
        /\ last_text = runText
        /\ stable_count = (IF runLen = 0 THEN 0 ELSE runLen - 1)
        /\ answer.some => (stable_count >= StableThreshold /\ answer = last_text)

C20_Witness ==
    /\ flow = "ask" /\ pc = "poll" /\ multi
    /\ stable_count = 0 /\ runLen = 1 /\ tick >= 2 /\ last_text = Some(TextB)

\* C21: generate_image declares the image set complete only with the count
\* of loaded images observed in at least 3 poll iterations (attempt counts
\* the iterations finished before the current one), however many
\* image-result locators match in one iteration.
C21_ThreeSpacedIterations ==
    (flow = "image" /\ pc = "after_image_poll" /\ images_found > 0) =>
        attempt + 1 >= StableThreshold

\* C22: when from the first tick on every response locator that matches
\* shows its own unchanging acceptable text (the locators may show different
\* texts), at least one locator matches and the loop has its full time, the
\* polling loop ends with an answer and not with the deadline.
C22_UnchangingTextsAnswered ==
    (/\ flow = "ask" /\ pc = "after_poll" /\ constant
     /\ shown # {}) => answer.some

\* A step of the polling loop that takes in no accepted sample (the sample
\* is rejected, the locator matches nothing or its query raises) leaves
\* stable_count and last_text unchanged.
C23_Frame ==
    (pc = "poll" /\ runLen' = runLen /\ runText' = runText) =>
        (stable_count' = stable_count /\ last_text' = last_text)

\* A run of identical accepted samples with rejected samples or raising
\* queries in between counts as it does without them: the answer is set
\* exactly when the run has more than StableThreshold samples.
C23_Counts ==
    (flow = "ask" /\ gap) =>
        /\ answer.some <=> runLen > StableThreshold
        /\ stable_count = runLen - 1 /\ last_text = runText

\* C23: in the polling loop of ask_gemini a rejected sample and a locator
\* whose query raises leave stable_count and last_text unchanged, so
\* identical accepted samples separated by them still count toward the
\* threshold.
C23_RejectedLeavesWindow == []C23_Counts /\ [][C23_Frame]_vars

C23_Witness ==
    /\ flow = "ask" /\ pc = "after_poll" /\ gap /\ ~multi
    /\ answer = Some(TextA) /\ stable_count = StableThreshold

\* The container indices of a list of paths increase strictly.
Ascending(paths) ==
    \A j, k \in 1..Len(paths) : j < k => paths[j].index < paths[k].index

\* C24: in the retrieval loop of generate_image saved_paths holds at most
\* one path per container, of a container already processed, in ascending
\* container order, also when a download or a first capture raised; the
\* list returned is that list.
C24_OnePathPerContainer ==
    flow = "image" =>
        /\ Ascending(saved_paths)
        /\ \A j \in 1..Len(saved_paths) :
              /\ saved_paths[j].index \in 1..Len(itemLog)
              /\ saved_paths[j].kind \in {"download", "capture"}
        /\ (Returning /\ result.some) =>
              (result.val = saved_paths /\ Ascending(result.val))

C24_Witness ==
    /\ flow = "image" /\ pc = "returned" /\ Len(itemLog) = 3
    /\ itemLog[1].raised /\ itemLog[1].saved = "capture"
    /\ itemLog[2].saved = "none"
    /\ result = Some(<<[index |-> 1, kind |-> "capture"],
                       [index |-> 3, kind |-> "download"]>>)

\* The last delivery method attempted completed without raising.
Delivered == methodLog # <<>> /\ ~methodLog[Len(methodLog)].raised

\* C25: in both flows Enter is pressed only with the input element resolved
\* (in ask_gemini also its working selector) and the last delivery method
\* completed without raising; a run in which no delivery method was reached
\* or the last one attempted raised never presses Enter and returns None.
C25_EnterOnlyAfterDelivery ==
    /\ pc = "submit" =>
         /\ Delivered /\ input_element # 0
         /\ flow = "ask" => working_selector # 0
    /\ enterCount >= 1 => Delivered
    /\ (Returning /\ ~Delivered) => (enterCount = 0 /\ result = NoneV)

C25_Witness ==
    /\ pc = "returned" /\ flow = "ask" /\ context
    /\ Len(methodLog) = Len(AskMethods) /\ methodLog[Len(methodLog)].raised
    /\ enterCount = 0 /\ result = NoneV
====
